---- MODULE Spec2Model ----
(***************************************************************************)
(* Model of kickstarter_dashboard.py: a Streamlit script that is executed   *)
(* top to bottom once per session start and once more after every widget    *)
(* interaction.  One script pass is one action.                              *)
(*                                                                           *)
(* Modelling conventions                                                     *)
(*   - a pandas cell is <<v>> (a value) or <<>> (NaN / NaT / missing);       *)
(*   - a float result is the exact fraction [num, den]; 0/0 is NaN;          *)
(*   - a Series is a sequence of <<key, value>> pairs in index order;        *)
(*   - a DataFrame is [kind, columns, rows]; Python's None is [kind].        *)
(***************************************************************************)
EXTENDS Integers, Sequences, FiniteSets, TLC

VARIABLES remote, cache, fetches, pc, err, widgets, kt_df,
          selected_years, selected_categories, selected_states,
          filtered_df, success_rate, total_pledged, total_goal,
          funding_ratio, metric_cards, shown, charts

vars == <<remote, cache, fetches, pc, err, widgets, kt_df,
          selected_years, selected_categories, selected_states,
          filtered_df, success_rate, total_pledged, total_goal,
          funding_ratio, metric_cards, shown, charts>>

(***************************************************************************)
(* Bounds of the explored inputs.                                            *)
(***************************************************************************)
MaxRows == 3

WideRows == 11

(***************************************************************************)
(* Values.                                                                   *)
(***************************************************************************)
NA == <<>>

Some(v) == <<v>>

None == [kind |-> "None"]

Unbound == [kind |-> "unbound"]

DataFrame(cols, rws) == [kind |-> "DataFrame", columns |-> cols, rows |-> rws]

NaN == [num |-> 0, den |-> 0]

Zero == [num |-> 0, den |-> 1]

Frac(n, d) == [num |-> n, den |-> d]

IsNaN(v) == v.den = 0

\* a < b on fractions with positive denominators
FracLess(a, b) == a.num * b.den < b.num * a.den

NoError == [type |-> "none", line |-> 0]

Raise(t, l) == [type |-> t, line |-> l]

(***************************************************************************)
(* The input contract of the script: the columns it reads, and the sort     *)
(* order of the key values that occur in the explored tables.               *)
(***************************************************************************)
Columns == {"launched", "state", "main_category", "goal", "pledged",
            "backers", "country"}

CategoryOrder == <<"Art", "Games">>

StateOrder == <<"failed", "successful">>

CountryOrder == <<"AT", "AU", "BE", "CA", "CH", "DE", "DK", "ES", "FR",
                  "GB", "IE", "IT", "NL", "US">>

YearOrder == <<2014, 2015, 2016>>

MonthOrder == <<1, 2, 3, 4, 5, 6, 7, 8, 9, 10, 11, 12>>

\* launched is <<year, month>> when it is a parsable date, anything else
\* when it is not.
Rows ==
  { [launched |-> <<2014, 1>>, main_category |-> "Art", state |-> "successful",
     goal |-> Some(1), pledged |-> Some(2), backers |-> Some(1), country |-> "US"],
    [launched |-> <<2015, 3>>, main_category |-> "Games", state |-> "failed",
     goal |-> Some(2), pledged |-> Some(0), backers |-> Some(0), country |-> "GB"],
    [launched |-> <<>>, main_category |-> "Art", state |-> "failed",
     goal |-> NA, pledged |-> Some(1), backers |-> NA, country |-> "US"],
    [launched |-> <<2016, 1>>, main_category |-> "Games", state |-> "successful",
     goal |-> Some(0), pledged |-> Some(5), backers |-> Some(2), country |-> "GB"] }

Tables == UNION { [1..n -> Rows] : n \in 0..MaxRows }

\* tables with many countries: row i comes from country i, except that each of
\* the last four rows may come from the first country instead; the second
\* row has an unparsable launch date
WideRow(i, c) ==
  [launched |-> IF i = 2 THEN <<>> ELSE <<2014, 1>>, main_category |-> "Art",
   state |-> "successful", goal |-> Some(1), pledged |-> Some(2),
   backers |-> Some(1), country |-> c]

WideTables ==
  { [i \in 1..WideRows |->
       WideRow(i, IF i <= WideRows - 4 \/ own[i] THEN CountryOrder[i]
                                                 ELSE CountryOrder[1])] :
      own \in [(WideRows - 3)..WideRows -> BOOLEAN] }

\* the tables that are also explored with a column missing
SchemaTables == { t \in Tables : Len(t) < MaxRows }

\* the table with column c removed
DropColumn(cols, rws, c) ==
  DataFrame(cols \ {c}, [i \in 1..Len(rws) |-> [f \in (DOMAIN rws[i]) \ {c} |-> rws[i][f]]])

(***************************************************************************)
(* Sequence helpers.                                                         *)
(***************************************************************************)
Range(s) == { s[i] : i \in 1..Len(s) }

RECURSIVE SumSeq(_)
SumSeq(s) == IF s = <<>> THEN 0 ELSE Head(s) + SumSeq(Tail(s))

\* sorted(set) for values of a known order
Sorted(S, order) == SelectSeq(order, LAMBDA x : x \in S)

\* list[-n:]
LastN(s, n) == IF Len(s) <= n THEN s ELSE SubSeq(s, Len(s) - n + 1, Len(s))

\* list[:n], Series.head(n)
FirstN(s, n) == IF Len(s) <= n THEN s ELSE SubSeq(s, 1, n)

\* the rows of rws at the positions where the boolean sequence m is TRUE
RECURSIVE Take(_, _)
Take(rws, m) ==
  IF rws = <<>> THEN <<>>
  ELSE IF Head(m) THEN <<Head(rws)>> \o Take(Tail(rws), Tail(m))
       ELSE Take(Tail(rws), Tail(m))

\* the distinct elements of s in order of first appearance
RECURSIVE UniqueInOrder(_)
UniqueInOrder(s) ==
  IF s = <<>> THEN <<>>
  ELSE LET init == UniqueInOrder(SubSeq(s, 1, Len(s) - 1))
           x == s[Len(s)]
       IN IF x \in Range(init) THEN init ELSE Append(init, x)

\* a < b for two counts (frac = FALSE) or two fractions (frac = TRUE)
ValLess(a, b, frac) == IF frac THEN FracLess(a, b) ELSE a < b

\* stable insertion of the pair p into a sequence held in descending order
\* of its values
RECURSIVE InsertDesc(_, _, _)
InsertDesc(p, s, frac) ==
  IF s = <<>> THEN <<p>>
  ELSE IF ValLess(Head(s)[2], p[2], frac) THEN <<p>> \o s
       ELSE <<Head(s)>> \o InsertDesc(p, Tail(s), frac)

\* Series.sort_values(ascending=False); ties keep their index order
RECURSIVE SortValuesDesc(_, _)
SortValuesDesc(s, frac) ==
  IF s = <<>> THEN <<>>
  ELSE InsertDesc(s[Len(s)], SortValuesDesc(SubSeq(s, 1, Len(s) - 1), frac), frac)

(***************************************************************************)
(* pandas primitives used by the script.                                     *)
(***************************************************************************)
\* pd.to_datetime(x, errors='coerce'): a date when x parses, NaT otherwise
to_datetime(x) == IF Len(x) = 2 /\ x[2] \in 1..12 THEN Some(x) ELSE NA

\* Series.dt.year, Series.dt.month: NaN on NaT
dt_year(d) == IF d = NA THEN NA ELSE Some(d[1][1])

dt_month(d) == IF d = NA THEN NA ELSE Some(d[1][2])

\* the cell of column col in row r, as <<v>> or <<>>
Cell(r, col) ==
  IF col \in {"main_category", "state", "country"} THEN Some(r[col]) ELSE r[col]

\* Series.sum(): missing values are skipped, the empty sum is 0
Sum(rws, col) ==
  SumSeq([i \in 1..Len(rws) |-> IF rws[i][col] = NA THEN 0 ELSE rws[i][col][1]])

\* (Series == 'successful').mean() * 100: NaN on an empty Series
SuccessRate(rws) ==
  IF Len(rws) = 0 THEN NaN
  ELSE Frac(100 * Len(SelectSeq(rws, LAMBDA r : r.state = "successful")), Len(rws))

\* Series.isin(values): a missing cell is a member of nothing
isin(c, values) == c # NA /\ c[1] \in values

\* the non-missing values of a column, as a sequence in row order
DropNA(rws, col) ==
  LET cells == [i \in 1..Len(rws) |-> Cell(rws[i], col)]
      kept == SelectSeq(cells, LAMBDA c : c # NA)
  IN [i \in 1..Len(kept) |-> kept[i][1]]

\* the rows whose column col holds k
Group(rws, col, k) == SelectSeq(rws, LAMBDA r : Cell(r, col) = Some(k))

\* Series.value_counts(): missing values dropped, descending count, ties in
\* order of first appearance
value_counts(rws, col) ==
  LET keys == UniqueInOrder(DropNA(rws, col))
      s == [i \in 1..Len(keys) |-> <<keys[i], Len(Group(rws, col, keys[i]))>>]
  IN SortValuesDesc(s, FALSE)

\* Series.sort_index()
sort_index(s, order) ==
  LET ks == Sorted({ s[i][1] : i \in 1..Len(s) }, order)
  IN [i \in 1..Len(ks) |-> CHOOSE p \in Range(s) : p[1] = ks[i]]

\* Series.reindex(index, fill_value=fill)
reindex(s, index, fill) ==
  [i \in 1..Len(index) |->
     IF \E p \in Range(s) : p[1] = index[i]
     THEN CHOOSE p \in Range(s) : p[1] = index[i]
     ELSE <<index[i], fill>>]

\* df.groupby(col)['state'].apply(lambda x: (x == 'successful').mean() * 100):
\* one entry per key that occurs, in sorted key order, missing keys dropped
GroupSuccessRate(rws, col, order) ==
  LET ks == Sorted(Range(DropNA(rws, col)), order)
  IN [i \in 1..Len(ks) |-> <<ks[i], SuccessRate(Group(rws, col, ks[i]))>>]

(***************************************************************************)
(* load_data and the preprocessing block.                                    *)
(***************************************************************************)
\* pd.read_csv(url): raises on a network failure, on malformed content and
\* on an empty payload; a header without rows is a DataFrame with no rows
read_csv(r) ==
  IF r.kind = "csv" THEN [raised |-> FALSE, df |-> DataFrame(r.columns, r.rows)]
  ELSE [raised |-> TRUE, df |-> None]

\* load_data with a second read_csv call in the except branch
load_data_retry(r) ==
  LET res == read_csv(r)
  IN [value |-> IF res.raised THEN read_csv(r).df ELSE res.df,
      attempts |-> IF res.raised THEN 2 ELSE 1]

\* the body of load_data: one read_csv call, any exception becomes None
load_data(r) ==
  LET res == read_csv(r)
  IN [value |-> IF res.raised THEN None ELSE res.df, attempts |-> 1]

\* kt_df['launched_dt'], kt_df['year'], kt_df['month'] are added in place
Normalize(df) ==
  DataFrame(df.columns \cup {"launched_dt", "year", "month"},
    [i \in 1..Len(df.rows) |->
       LET r == df.rows[i]
           d == to_datetime(r.launched)
       IN [f \in (DOMAIN r) \cup {"launched_dt", "year", "month"} |->
             CASE f = "launched_dt" -> d
               [] f = "year" -> dt_year(d)
               [] f = "month" -> dt_month(d)
               [] OTHER -> r[f]]])

\* FundingRatio with the guard total_goal >= 0: divides by a zero goal sum
FundingRatioNoGuard(tp, tg) == IF tg >= 0 THEN Frac(100 * tp, tg) ELSE Zero

\* (total_pledged / total_goal) * 100 if total_goal > 0 else 0
FundingRatio(tp, tg) == IF tg > 0 THEN Frac(100 * tp, tg) ELSE Zero

(***************************************************************************)
(* Sidebar: the options and the default selection of each multiselect.      *)
(***************************************************************************)
YearOptions(df) == Sorted(Range(DropNA(df.rows, "year")), YearOrder)

CategoryOptions(df) == Sorted(Range(DropNA(df.rows, "main_category")), CategoryOrder)

StateOptions(df) == Sorted(Range(DropNA(df.rows, "state")), StateOrder)

DefaultYears(df) ==
  LET years == YearOptions(df)
  IN Range(IF Len(years) >= 3 THEN LastN(years, 3) ELSE years)

DefaultCategories(df) ==
  LET categories == CategoryOptions(df)
  IN Range(IF Len(categories) >= 5 THEN FirstN(categories, 5) ELSE categories)

DefaultStates(df) == Range(StateOptions(df))

(***************************************************************************)
(* The filter expression.                                                    *)
(***************************************************************************)
\* (kt_df[col].isin(selected) if selected else True)
Term(df, col, selected) ==
  IF selected # {}
  THEN [kind |-> "Series",
        v |-> [i \in 1..Len(df.rows) |-> isin(Cell(df.rows[i], col), selected)]]
  ELSE [kind |-> "bool", v |-> <<>>]

\* And with the element-wise conjunction replaced by a disjunction (a | b)
AndAsOr(a, b) ==
  CASE a.kind = "bool" /\ b.kind = "bool" -> a
    [] a.kind = "bool" /\ b.kind = "Series" -> b
    [] a.kind = "Series" /\ b.kind = "bool" -> a
    [] OTHER -> [kind |-> "Series", v |-> [i \in 1..Len(a.v) |-> a.v[i] \/ b.v[i]]]

\* a & b: two Python bools give a bool, a Series with True gives the Series
And(a, b) ==
  CASE a.kind = "bool" /\ b.kind = "bool" -> a
    [] a.kind = "bool" /\ b.kind = "Series" -> b
    [] a.kind = "Series" /\ b.kind = "bool" -> a
    [] OTHER -> [kind |-> "Series", v |-> [i \in 1..Len(a.v) |-> a.v[i] /\ b.v[i]]]

Mask(df, sy, sc, ss) ==
  And(And(Term(df, "year", sy), Term(df, "main_category", sc)), Term(df, "state", ss))

\* df[key]: a boolean Series selects rows into a new frame; the scalar True
\* is looked up as a column label, which no table has
GetItem(df, key) ==
  IF key.kind = "Series"
  THEN [raised |-> FALSE, df |-> DataFrame(df.columns, Take(df.rows, key.v))]
  ELSE [raised |-> TRUE, df |-> Unbound]

\* ApplyFilter as kt_df = filtered_df = kt_df[...]: the view replaces the source
ApplyFilterInPlace(df, sy, sc, ss) ==
  LET res == GetItem(df, Mask(df, sy, sc, ss))
  IN [raised |-> res.raised, kt_df |-> IF res.raised THEN df ELSE res.df,
      filtered_df |-> res.df]

\* filtered_df = kt_df[...]: binds filtered_df and leaves kt_df as it is
ApplyFilter(df, sy, sc, ss) ==
  LET res == GetItem(df, Mask(df, sy, sc, ss))
  IN [raised |-> res.raised, kt_df |-> df, filtered_df |-> res.df]

(***************************************************************************)
(* The charts.                                                               *)
(***************************************************************************)
TopN == 10

NoCharts ==
  [success_by_cat |-> <<>>, state_counts |-> <<>>, projects_per_year |-> <<>>,
   yearly_success |-> <<>>, projects_per_month |-> <<>>, monthly_success |-> <<>>,
   country_counts |-> <<>>, success_by_country |-> <<>>,
   correlation_matrix |-> <<>>]

success_by_cat(df) ==
  SortValuesDesc(GroupSuccessRate(df.rows, "main_category", CategoryOrder), TRUE)

state_counts(df) == value_counts(df.rows, "state")

projects_per_year(df) == sort_index(value_counts(df.rows, "year"), YearOrder)

yearly_success(df) == GroupSuccessRate(df.rows, "year", YearOrder)

\* the y series of the chart: projects_per_month.reindex(range(1, 13), fill_value=0)
projects_per_month(df) ==
  reindex(sort_index(value_counts(df.rows, "month"), MonthOrder), MonthOrder, 0)

\* the y series of the chart: monthly_success.reindex(range(1, 13), fill_value=0)
monthly_success(df) ==
  reindex(GroupSuccessRate(df.rows, "month", MonthOrder), MonthOrder, Zero)

\* country_counts cut one entry short: head(TopN - 1)
country_counts_short(df) == FirstN(value_counts(df.rows, "country"), TopN - 1)

country_counts(df) == FirstN(value_counts(df.rows, "country"), TopN)

success_by_country(df) ==
  FirstN(SortValuesDesc(GroupSuccessRate(df.rows, "country", CountryOrder), TRUE), TopN)

\* tabs 1 and 2
Tab12(df) ==
  [success_by_cat |-> success_by_cat(df), state_counts |-> state_counts(df),
   projects_per_year |-> projects_per_year(df), yearly_success |-> yearly_success(df),
   projects_per_month |-> projects_per_month(df), monthly_success |-> monthly_success(df)]

Tab12Names == {"success_by_cat", "state_counts", "projects_per_year",
               "yearly_success", "projects_per_month", "monthly_success"}

\* tab 4
Tab4(df) ==
  [country_counts |-> country_counts(df), success_by_country |-> success_by_country(df)]

Tab4Names == {"country_counts", "success_by_country", "category_analysis"}

(***************************************************************************)
(* DataFrame.corr(): Pearson correlation over the rows where both columns   *)
(* hold a value.  A coefficient c / sqrt(vx * vy) is kept exactly as its    *)
(* sign and its square [sgn, num, den]; NaN is [0, 0, 0].                    *)
(***************************************************************************)
numerical_cols == <<"goal", "pledged", "backers">>

\* the default min_periods of DataFrame.corr
MinPeriods == 1

CorrNaN == [sgn |-> 0, num |-> 0, den |-> 0]

Sign(c) == IF c > 0 THEN 1 ELSE IF c < 0 THEN 0 - 1 ELSE 0

\* JointObservations with the missing cells read as 0 (fillna(0) before corr)
JointObservationsFillZero(rws, a, b) ==
  [i \in 1..Len(rws) |->
     <<IF rws[i][a] = NA THEN 0 ELSE rws[i][a][1],
       IF rws[i][b] = NA THEN 0 ELSE rws[i][b][1]>>]

\* the pairs <<x, y>> of the rows in which neither column a nor b is missing
JointObservations(rws, a, b) ==
  LET kept == SelectSeq(rws, LAMBDA r : r[a] # NA /\ r[b] # NA)
  IN [i \in 1..Len(kept) |-> <<kept[i][a][1], kept[i][b][1]>>]

\* one entry: NaN under min_periods observations and NaN when the divisor
\* sqrt(ssqdm_x * ssqdm_y) is 0, covxy / divisor otherwise
Pearson(obs) ==
  LET n == Len(obs)
      sx == SumSeq([i \in 1..n |-> obs[i][1]])
      sy == SumSeq([i \in 1..n |-> obs[i][2]])
      sxx == SumSeq([i \in 1..n |-> obs[i][1] * obs[i][1]])
      syy == SumSeq([i \in 1..n |-> obs[i][2] * obs[i][2]])
      sxy == SumSeq([i \in 1..n |-> obs[i][1] * obs[i][2]])
      c == n * sxy - sx * sy
      vx == n * sxx - sx * sx
      vy == n * syy - sy * sy
  IN IF n < MinPeriods THEN CorrNaN
     ELSE IF vx * vy # 0 THEN [sgn |-> Sign(c), num |-> c * c, den |-> vx * vy]
     ELSE CorrNaN

\* filtered_df[numerical_cols].corr(): the entry of (xi, yi) is computed for
\* yi <= xi and stored at both (xi, yi) and (yi, xi); the matrix is listed
\* row by row as <<<<row label, column label>>, entry>>
correlation_matrix(df) ==
  LET K == Len(numerical_cols)
  IN [k \in 1..(K * K) |->
        LET i == ((k - 1) \div K) + 1
            j == ((k - 1) % K) + 1
            xi == IF i >= j THEN i ELSE j
            yi == IF i >= j THEN j ELSE i
        IN <<<<numerical_cols[i], numerical_cols[j]>>,
             Pearson(JointObservations(df.rows, numerical_cols[xi],
                                       numerical_cols[yi]))>>]

\* tab 5
Tab5(df) == [correlation_matrix |-> correlation_matrix(df)]

\* the four cards of the Key Metrics section, as passed to format()
MetricCards(df, sr, tp, fr) ==
  [success_rate |-> sr, total_projects |-> Len(df.rows),
   total_pledged |-> Frac(tp, 1000000), funding_ratio |-> fr]

(***************************************************************************)
(* One pass of the script over the value load_data returned.  first tells   *)
(* a session start, where each multiselect takes its default; wy, wc, ws    *)
(* are the selections held by the widgets otherwise.  The pass stops at the *)
(* first statement that raises.                                              *)
(***************************************************************************)
Blank ==
  [pc |-> "done", err |-> NoError, widgets |-> {}, kt_df |-> Unbound,
   selected_years |-> {}, selected_categories |-> {}, selected_states |-> {},
   filtered_df |-> Unbound, success_rate |-> NaN, total_pledged |-> 0,
   total_goal |-> 0, funding_ratio |-> NaN, metric_cards |-> Unbound,
   shown |-> {}, charts |-> NoCharts]

MissingAt(df) ==
  CASE "launched" \notin df.columns -> 95
    [] "state" \notin df.columns -> 100
    [] "pledged" \notin df.columns -> 103
    [] "goal" \notin df.columns -> 104
    [] OTHER -> 0

RunScript(value, first, wy, wc, ws) ==
  IF value = None
  THEN [pc |-> "load_failed", kt_df |-> None, shown |-> {"load_failed"},
        selected_years |-> wy, selected_categories |-> wc, selected_states |-> ws]
       @@ Blank
  ELSE IF MissingAt(value) # 0
  THEN [pc |-> "exception", err |-> Raise("KeyError", MissingAt(value)),
        kt_df |-> IF MissingAt(value) = 95 THEN value ELSE Normalize(value),
        shown |-> {"exception"},
        selected_years |-> wy, selected_categories |-> wc, selected_states |-> ws]
       @@ Blank
  ELSE
    LET df == Normalize(value)
        sr == SuccessRate(df.rows)
        tp == Sum(df.rows, "pledged")
        tg == Sum(df.rows, "goal")
        fr == FundingRatio(tp, tg)
        sy == IF first THEN DefaultYears(df) ELSE wy
        pre == [kt_df |-> df, success_rate |-> sr, total_pledged |-> tp,
                total_goal |-> tg, funding_ratio |-> fr, selected_years |-> sy]
    IN IF "main_category" \notin df.columns
       THEN [pc |-> "exception", err |-> Raise("KeyError", 119), widgets |-> {"year"},
             shown |-> {"exception"}, selected_categories |-> wc,
             selected_states |-> ws] @@ pre @@ Blank
       ELSE
         LET sc == IF first THEN DefaultCategories(df) ELSE wc
             ss == IF first THEN DefaultStates(df) ELSE ws
             f == ApplyFilter(df, sy, sc, ss)
             side == [widgets |-> {"year", "category", "state"},
                      selected_categories |-> sc, selected_states |-> ss,
                      kt_df |-> f.kt_df, filtered_df |-> f.filtered_df]
         IN IF f.raised
            THEN [pc |-> "exception", err |-> Raise("KeyError", 135),
                  shown |-> {"exception"}] @@ side @@ pre @@ Blank
            ELSE
              LET fdf == f.filtered_df
                  cards == [metric_cards |-> MetricCards(f.kt_df, sr, tp, fr)]
                  c12 == Tab12(fdf) @@ NoCharts
              IN IF "backers" \notin fdf.columns
                 THEN [pc |-> "exception", err |-> Raise("ValueError", 365),
                       shown |-> {"metrics", "scatter_goal", "exception"} \cup Tab12Names,
                       charts |-> c12] @@ cards @@ side @@ pre @@ Blank
                 ELSE IF "country" \notin fdf.columns
                 THEN [pc |-> "exception", err |-> Raise("KeyError", 419),
                       shown |-> {"metrics", "scatter_goal", "scatter_backers",
                                  "financial_by_cat", "exception"} \cup Tab12Names,
                       charts |-> c12] @@ cards @@ side @@ pre @@ Blank
                 ELSE [shown |-> {"metrics", "scatter_goal", "scatter_backers",
                                  "financial_by_cat", "box_goal", "box_backers",
                                  "correlation_matrix"} \cup Tab12Names \cup Tab4Names,
                       charts |-> Tab5(fdf) @@ Tab4(fdf) @@ c12] @@ cards @@ side @@ pre @@ Blank

(***************************************************************************)
(* State machine.                                                            *)
(***************************************************************************)
Failures == { [kind |-> k] : k \in {"network", "malformed", "empty_payload"} }

Init ==
  /\ remote \in Failures
        \cup { [kind |-> "csv", columns |-> Columns, rows |-> t] :
                 t \in Tables \cup WideTables }
        \cup { [kind |-> "csv", columns |-> d.columns, rows |-> d.rows] :
                 d \in { DropColumn(Columns, t, c) : t \in SchemaTables, c \in Columns } }
  /\ cache = Unbound
  /\ fetches = 0
  /\ pc = "start"
  /\ err = NoError
  /\ widgets = {}
  /\ kt_df = Unbound
  /\ selected_years = {}
  /\ selected_categories = {}
  /\ selected_states = {}
  /\ filtered_df = Unbound
  /\ success_rate = NaN
  /\ total_pledged = 0
  /\ total_goal = 0
  /\ funding_ratio = NaN
  /\ metric_cards = Unbound
  /\ shown = {}
  /\ charts = NoCharts

\* a pass: load_data() behind st.cache_data, then the rest of the script
Pass(first, wy, wc, ws) ==
  LET hit == cache # Unbound
      ld == IF hit THEN [value |-> cache, attempts |-> 0] ELSE load_data(remote)
  IN \E out \in {RunScript(ld.value, first, wy, wc, ws)} :
     /\ cache' = ld.value
     /\ fetches' = fetches + ld.attempts
     /\ remote' = remote
     /\ pc' = out.pc
     /\ err' = out.err
     /\ widgets' = out.widgets
     /\ kt_df' = out.kt_df
     /\ selected_years' = out.selected_years
     /\ selected_categories' = out.selected_categories
     /\ selected_states' = out.selected_states
     /\ filtered_df' = out.filtered_df
     /\ success_rate' = out.success_rate
     /\ total_pledged' = out.total_pledged
     /\ total_goal' = out.total_goal
     /\ funding_ratio' = out.funding_ratio
     /\ metric_cards' = out.metric_cards
     /\ shown' = out.shown
     /\ charts' = out.charts

\* the session starts: first execution of the script
FirstRun ==
  /\ pc = "start"
  /\ Pass(TRUE, {}, {}, {})

\* s with the option v added when absent, removed when present
Toggle(s, v) == IF v \in s THEN s \ {v} ELSE s \cup {v}

\* the user adds or removes one option of one multiselect that exists, which
\* reruns the script
FilterChange(widget, v) ==
  /\ pc # "start"
  /\ widget \in widgets
  /\ CASE widget = "year" ->
            /\ v \in Range(YearOptions(kt_df))
            /\ Pass(FALSE, Toggle(selected_years, v), selected_categories, selected_states)
       [] widget = "category" ->
            /\ v \in Range(CategoryOptions(kt_df))
            /\ Pass(FALSE, selected_years, Toggle(selected_categories, v), selected_states)
       [] widget = "state" ->
            /\ v \in Range(StateOptions(kt_df))
            /\ Pass(FALSE, selected_years, selected_categories, Toggle(selected_states, v))

\* the user reruns the script without touching a widget
Rerun ==
  /\ pc # "start"
  /\ Pass(FALSE, selected_years, selected_categories, selected_states)

Next ==
  \/ FirstRun
  \/ \E v \in Range(YearOrder) : FilterChange("year", v)
  \/ \E v \in Range(CategoryOrder) : FilterChange("category", v)
  \/ \E v \in Range(StateOrder) : FilterChange("state", v)
  \/ Rerun

Spec == Init /\ [][Next]_vars

(***************************************************************************)
(* Properties.                                                               *)
(***************************************************************************)
\* the pass executed the filter statement (lines 135-139)
FilterReached == pc \in {"done", "exception"} /\ "state" \in widgets

AllEmpty == selected_years = {} /\ selected_categories = {} /\ selected_states = {}

\* equality of two float results by value
FracEq(a, b) ==
  IF IsNaN(a) \/ IsNaN(b) THEN IsNaN(a) /\ IsNaN(b)
  ELSE a.num * b.den = b.num * a.den

\* row r passes the dimension col under the selection sel
Passes(r, col, sel) == sel = {} \/ (Cell(r, col) # NA /\ Cell(r, col)[1] \in sel)

Keeps(r) ==
  /\ Passes(r, "year", selected_years)
  /\ Passes(r, "main_category", selected_categories)
  /\ Passes(r, "state", selected_states)

\* C1: with the three selections empty the filter returns the full table,
\* same rows in the same order, and raises no error.
C1_EmptySelectionReturnsAll ==
  (FilterReached /\ AllEmpty) =>
     /\ err = NoError
     /\ filtered_df.kind = "DataFrame"
     /\ filtered_df.rows = kt_df.rows

\* C2: with at least one non-empty selection the view is exactly the rows
\* that are members of the selection on every non-empty dimension, in their
\* order in the source table.
C2_ViewIsConjunction ==
  (FilterReached /\ ~AllEmpty) =>
     /\ err.line # 135
     /\ filtered_df.kind = "DataFrame"
     /\ filtered_df.columns = kt_df.columns
     /\ filtered_df.rows = SelectSeq(kt_df.rows, Keeps)

\* a view of at least two rows, cut by two dimensions while the third is empty,
\* that leaves out a row of the source
C2_Witness ==
  /\ FilterReached /\ pc = "done"
  /\ selected_years = {} /\ selected_categories # {} /\ selected_states # {}
  /\ Len(filtered_df.rows) >= 2
  /\ Len(filtered_df.rows) < Len(kt_df.rows)
  /\ \E i \in 1..Len(kt_df.rows) : ~Passes(kt_df.rows[i], "state", selected_states)
  /\ \E i \in 1..Len(kt_df.rows) :
        ~Passes(kt_df.rows[i], "main_category", selected_categories)

\* the four top-line statistics of a table
Statistics(df) ==
  MetricCards(df, SuccessRate(df.rows), Sum(df.rows, "pledged"),
              FundingRatio(Sum(df.rows, "pledged"), Sum(df.rows, "goal")))

\* C3: every displayed top-line metric equals the statistic computed over
\* the current filtered view.
C3_MetricsOverView ==
  metric_cards # Unbound =>
     LET want == Statistics(filtered_df)
     IN /\ FracEq(metric_cards.success_rate, want.success_rate)
        /\ metric_cards.total_projects = want.total_projects
        /\ FracEq(metric_cards.total_pledged, want.total_pledged)
        /\ FracEq(metric_cards.funding_ratio, want.funding_ratio)

\* the entry of a charted rate series is right for the group of key p[1]
RateEntryOK(p, col) ==
  LET n == Cardinality({ i \in 1..Len(filtered_df.rows) :
                            Cell(filtered_df.rows[i], col) = Some(p[1]) })
      k == Cardinality({ i \in 1..Len(filtered_df.rows) :
                            /\ Cell(filtered_df.rows[i], col) = Some(p[1])
                            /\ filtered_df.rows[i].state = "successful" })
  IN IF n > 0
     THEN /\ ~IsNaN(p[2])
          /\ p[2].num * n = 100 * k * p[2].den
          /\ 0 <= p[2].num /\ p[2].num <= 100 * p[2].den
     ELSE IsNaN(p[2])

\* C4: every entry of a grouped success rate is 100 * successful / records
\* of its group and lies in [0, 100] when the group has a record, and is a
\* no-data marker, never the number 0, when the group has none.
C4_GroupedRates ==
  "success_by_country" \in shown =>
     /\ \A p \in Range(charts.success_by_cat) : RateEntryOK(p, "main_category")
     /\ \A p \in Range(charts.yearly_success) : RateEntryOK(p, "year")
     /\ \A p \in Range(charts.monthly_success) : RateEntryOK(p, "month")
     /\ \A p \in Range(charts.success_by_country) : RateEntryOK(p, "country")

SeriesSum(s) == SumSeq([i \in 1..Len(s) |-> s[i][2]])

Keys(s) == { s[i][1] : i \in 1..Len(s) }

\* the rows of the view whose cell in col is not missing
NonMissing(col) ==
  Cardinality({ i \in 1..Len(filtered_df.rows) : Cell(filtered_df.rows[i], col) # NA })

\* the number of rows of the view in country c
InCountry(c) ==
  Cardinality({ i \in 1..Len(filtered_df.rows) : filtered_df.rows[i].country = c })

ViewCountries == { filtered_df.rows[i].country : i \in 1..Len(filtered_df.rows) }

\* C5 as stated: the counts of each charted series sum to the number of rows
\* of the filtered view.
C5_CountsSumToRows ==
  /\ "state_counts" \in shown =>
        /\ SeriesSum(charts.state_counts) = Len(filtered_df.rows)
        /\ SeriesSum(charts.projects_per_year) = Len(filtered_df.rows)
        /\ SeriesSum(charts.projects_per_month) = Len(filtered_df.rows)
  /\ "country_counts" \in shown =>
        SeriesSum(charts.country_counts) = Len(filtered_df.rows)

\* C5 amended: the state, year and month counts sum to the rows of the view
\* whose key is not missing; the country series holds the (at most) 10 most
\* frequent countries and sums to the rows of the view in those countries,
\* which is every row when the view has at most 10 countries and fewer
\* otherwise.
C5_CountsSumToCoveredRows ==
  /\ "state_counts" \in shown =>
        /\ SeriesSum(charts.state_counts) = NonMissing("state")
        /\ SeriesSum(charts.projects_per_year) = NonMissing("year")
        /\ SeriesSum(charts.projects_per_month) = NonMissing("month")
  /\ "country_counts" \in shown =>
        LET cc == charts.country_counts
        IN /\ Len(cc) <= TopN
           /\ Keys(cc) \subseteq ViewCountries
           /\ \A p \in Range(cc) : p[2] = InCountry(p[1])
           /\ \A c \in ViewCountries \ Keys(cc) :
                 \A p \in Range(cc) : InCountry(c) <= p[2]
           /\ SeriesSum(cc) =
                 Cardinality({ i \in 1..Len(filtered_df.rows) :
                                 filtered_df.rows[i].country \in Keys(cc) })
           /\ IF Cardinality(ViewCountries) <= TopN
              THEN SeriesSum(cc) = Len(filtered_df.rows)
              ELSE SeriesSum(cc) < Len(filtered_df.rows)

\* a view with a row of unparsable launch date and more than 10 countries
C5_Witness ==
  /\ pc = "done" /\ "country_counts" \in shown
  /\ NonMissing("year") < Len(filtered_df.rows)
  /\ SeriesSum(charts.projects_per_year) < Len(filtered_df.rows)
  /\ Cardinality(ViewCountries) > TopN
  /\ SeriesSum(charts.country_counts) < Len(filtered_df.rows)

\* the pass executed the funding ratio statement (line 105)
RatioComputed ==
  /\ pc \in {"done", "exception"}
  /\ err.line \notin {95, 100, 103, 104}

\* C6: the funding ratio is exactly 0 when the goal sum of the rows it is
\* computed on is 0, whatever the pledged sum, and sum(pledged) / sum(goal)
\* * 100 when the goal sum is positive.
C6_FundingRatio ==
  RatioComputed =>
     LET G == SumSeq([i \in 1..Len(kt_df.rows) |->
                        IF kt_df.rows[i].goal = NA THEN 0 ELSE kt_df.rows[i].goal[1]])
         P == SumSeq([i \in 1..Len(kt_df.rows) |->
                        IF kt_df.rows[i].pledged = NA THEN 0
                        ELSE kt_df.rows[i].pledged[1]])
     IN /\ total_goal = G /\ total_pledged = P
        /\ G = 0 => funding_ratio = Zero
        /\ G > 0 => /\ funding_ratio.den # 0
                    /\ funding_ratio.num * G = 100 * P * funding_ratio.den

\* a goal sum of 0 under a positive pledged sum
C6_Witness ==
  /\ RatioComputed /\ Len(kt_df.rows) >= 2
  /\ total_goal = 0 /\ total_pledged > 0 /\ funding_ratio = Zero

\* C7: applying the filter to the view it produced yields that same view.
C7_Idempotent ==
  FilterReached =>
     LET once == ApplyFilter(kt_df, selected_years, selected_categories,
                             selected_states)
     IN /\ ~once.raised
        /\ LET twice == ApplyFilter(once.filtered_df, selected_years,
                                    selected_categories, selected_states)
           IN ~twice.raised /\ twice.filtered_df = once.filtered_df

Normalized(df) == df.kind = "DataFrame" /\ "year" \in df.columns

\* C8: once normalized, the source table is the same after every pass as
\* before it: the filter builds a view and takes no row out of the source.
C8_SourceUnchanged == [][Normalized(kt_df) => kt_df' = kt_df]_vars

\* a filter change has produced a view smaller than the source
C8_Witness ==
  /\ pc = "done" /\ Normalized(kt_df)
  /\ selected_states # DefaultStates(kt_df)
  /\ Len(filtered_df.rows) > 0
  /\ Len(filtered_df.rows) < Len(kt_df.rows)

\* C9: one fetch attempt and no retry; a failed fetch gives None, runs no
\* normalization, filter or aggregation and ends in the error branch; a
\* fetched table without rows is not a fetch failure.
C9_LoadFailure ==
  /\ fetches <= 1
  /\ pc # "start" =>
        /\ fetches = 1
        /\ remote.kind # "csv" =>
              /\ cache = None /\ kt_df = None /\ pc = "load_failed"
              /\ filtered_df = Unbound /\ metric_cards = Unbound
              /\ widgets = {} /\ charts = NoCharts /\ shown = {"load_failed"}
        /\ remote.kind = "csv" =>
              /\ cache = DataFrame(remote.columns, remote.rows)
              /\ pc # "load_failed" /\ "load_failed" \notin shown

\* the load failed
C9_Witness == pc = "load_failed" /\ remote.kind = "empty_payload" /\ fetches = 1

\* C10: a loaded table that lacks a column the script reads makes the run
\* fail in the preprocessing block, before the filter is applied and before
\* any metric or chart is produced.
C10_SchemaFailFast ==
  (pc # "start" /\ remote.kind = "csv" /\ ~(Columns \subseteq remote.columns)) =>
     /\ pc = "exception"
     /\ err.line \in 93..105
     /\ filtered_df = Unbound
     /\ metric_cards = Unbound
     /\ shown = {"exception"}

\* the entry of the charted correlation matrix at row a, column b
Entry(a, b) == (CHOOSE p \in Range(charts.correlation_matrix) : p[1] = <<a, b>>)[2]

\* the values of column a that are not missing in the view, in row order
Valid(a) ==
  LET kept == SelectSeq(filtered_df.rows, LAMBDA r : r[a] # NA)
  IN [i \in 1..Len(kept) |-> kept[i][a][1]]

\* the number of rows of the view in which neither a nor b is missing
Joint(a, b) ==
  Cardinality({ i \in 1..Len(filtered_df.rows) :
                  filtered_df.rows[i][a] # NA /\ filtered_df.rows[i][b] # NA })

IsOne(e) == e.sgn = 1 /\ e.den # 0 /\ e.num = e.den

IsNull(e) == e.den = 0

Symmetric ==
  \A a \in Range(numerical_cols), b \in Range(numerical_cols) :
     Entry(a, b) = Entry(b, a)

NullUnderTwo ==
  \A a \in Range(numerical_cols), b \in Range(numerical_cols) :
     Joint(a, b) < 2 => IsNull(Entry(a, b))

\* C11 as stated: the matrix is symmetric, its diagonal entry is 1.0 for every
\* variable with at least 2 valid observations, and an entry with fewer than
\* 2 valid joint observations is null.
C11_CorrelationMatrix ==
  "correlation_matrix" \in shown =>
     /\ Symmetric
     /\ NullUnderTwo
     /\ \A a \in Range(numerical_cols) :
           Len(Valid(a)) >= 2 => IsOne(Entry(a, a))

\* C11 amended: the matrix is symmetric, an entry with fewer than 2 valid
\* joint observations is null, and the diagonal entry of a variable with at
\* least 2 valid observations is 1.0 when they are not all equal and null
\* when they are all equal.
C11_CorrelationMatrixVarying ==
  "correlation_matrix" \in shown =>
     /\ Symmetric
     /\ NullUnderTwo
     /\ \A a \in Range(numerical_cols) :
           Len(Valid(a)) >= 2 =>
              IF Cardinality(Range(Valid(a))) > 1 THEN IsOne(Entry(a, a))
                                                   ELSE IsNull(Entry(a, a))

\* a view in which one variable varies over its valid observations, another
\* holds the same value in two or more, and a pair of variables has a single
\* joint observation or none
C11_Witness ==
  /\ pc = "done" /\ "correlation_matrix" \in shown
  /\ \E a \in Range(numerical_cols) :
        /\ Len(Valid(a)) >= 2 /\ Cardinality(Range(Valid(a))) > 1
        /\ IsOne(Entry(a, a))
  /\ \/ \E a \in Range(numerical_cols) :
           /\ Len(Valid(a)) >= 2 /\ Cardinality(Range(Valid(a))) = 1
           /\ IsNull(Entry(a, a))
     \/ \E a \in Range(numerical_cols), b \in Range(numerical_cols) :
           Joint(a, b) < 2 /\ Len(filtered_df.rows) >= 2

====
